---- MODULE Spec2Model ----
(***************************************************************************)
(* Model of the open62541 binding's ownership container                     *)
(* (src/src/ua/server_config.rs), its default configuration assembly and    *)
(* the primitive wrappers (src/src/ua/data_types.rs, src/src/lib.rs).       *)
(***************************************************************************)
EXTENDS Integers, Sequences, FiniteSets

\* ------------------------------------------------------------ bounds
MaxContainers == 2
MaxValues == 2

\* Port named by the doc comment of `Default for ServerConfig`.
DefaultPort == 4840

Containers == 1..MaxContainers
ValueIds == 1..MaxValues

\* ------------------------------------------------------------ Option<T>
None == [tag |-> "None"]
Some(v) == [tag |-> "Some", val |-> v]
IsSome(o) == o.tag = "Some"

\* Option::take: the option's content moves out, None stays behind.
Take(o) == [out |-> o, left |-> None]

\* Mutant: a default value stands in for a missing one (unwrap_or_default).
Expect_lenient(o) == IF IsSome(o) THEN [panic |-> FALSE, val |-> o]
                                  ELSE [panic |-> FALSE, val |-> Some([id |-> 1,
                                            logging |-> "null", port |-> 0, sub |-> FALSE])]

\* Option::expect: the content, or a panic on None.
Expect(o) == IF IsSome(o) THEN [panic |-> FALSE, val |-> o]
                          ELSE [panic |-> TRUE, val |-> None]

\* ------------------------------------------------------------ native values
\* A UA_ServerConfig: `id` is the identity of the native allocations the value
\* holds, `logging` the logger field, `port` and `sub` the attributes derived by
\* the native default-population routine (sub: the logger was copied into the
\* sub-structures).
Zeroed(id) == [id |-> id, logging |-> "null", port |-> 0, sub |-> FALSE]
Configured(id) == [id |-> id, logging |-> "external", port |-> DefaultPort, sub |-> TRUE]
ExternalValues(id) == {Zeroed(id), Configured(id)}

StatusCodes == {"Good", "Uncertain", "BadOutOfMemory"}

\* crate::logger(): a fresh, non-null logger instance.
logger == "logger"

\* Error::verify_good: Ok exactly for a good status code.
verify_good(status_code) == status_code = "Good"

\* UA_ServerConfig_setDefault: sets the remaining attributes (not `logging`) and
\* copies the logger into them; on failure any part of them may have been set.
UA_ServerConfig_setDefault(v, s, p) ==
    IF s = "Good"
    THEN [v EXCEPT !.port = DefaultPort, !.sub = (v.logging # "null")]
    ELSE [v EXCEPT !.port = p.port, !.sub = p.sub]
PartialResults == [port : {0, DefaultPort}, sub : BOOLEAN]

\* ------------------------------------------------------------ ServerConfig
\* from_raw: Self(Some(src)).
from_raw(src) == Some(src)

\* init: from_raw of the zeroed value.
init(id) == from_raw(Zeroed(id))

\* Mutant: the value is returned but not taken out of the container.
into_raw_keep(self) ==
    LET e == Expect(self)
    IN [self |-> self, panic |-> e.panic, ret |-> e.val]

\* into_raw: self.0.take().expect(..); `self` is what is left to be dropped.
into_raw(self) ==
    LET t == Take(self)
        e == Expect(t.out)
    IN [self |-> t.left, panic |-> e.panic, ret |-> e.val]

\* as_mut: self.0.as_mut().expect(..); the container is not changed.
as_mut(self) ==
    LET e == Expect(self)
    IN [self |-> self, panic |-> e.panic, ref |-> e.val]

\* as_mut_ptr: self.0.as_mut().expect(..), as a pointer.
as_mut_ptr(self) ==
    LET e == Expect(self)
    IN [self |-> self, panic |-> e.panic, ref |-> e.val]

\* Mutant: the cleanup is called without the check for a held value.
drop_unconditional(self) ==
    LET t == Take(self)
    IN [self |-> t.left, clean |-> IF IsSome(t.out) THEN t.out ELSE Some(Zeroed(1))]

\* Mutant: the held value is forgotten instead of cleaned up.
drop_forget(self) ==
    LET t == Take(self)
    IN [self |-> t.left, clean |-> None]

\* Drop::drop: if let Some(inner) = self.0.take() { UA_ServerConfig_clean(inner) }.
\* `clean` is the argument of the native cleanup call, None when it is not made.
drop(self) ==
    LET t == Take(self)
    IN [self |-> t.left, clean |-> t.out]

\* Mutant: the logger is not assigned.
set_logger_skip(config) == config

\* default(): config.logging = crate::logger();
set_logger(config) == [config EXCEPT !.logging = logger]

\* default(): debug_assert!(config.logging.is_null());
\* (checked in debug builds; after init() the field is null in every build)
logging_is_null(config) == config.logging = "null"

\* Mutant: the result of verify_good is ignored.
expect_good_ignored(status_code) == [panic |-> FALSE]

\* default(): Error::verify_good(&status_code).expect(..) panics on an Err.
expect_good(status_code) == [panic |-> ~verify_good(status_code)]

StateOf(o) == IF IsSome(o) THEN "Owned" ELSE "Released"

\* ------------------------------------------------------------ primitives
\* The table of primitive!: wrapper name and host type.
primitive ==
    { <<"Boolean", "bool">>, <<"SByte", "i8">>, <<"Byte", "u8">>,
      <<"Int16", "i16">>, <<"UInt16", "u16">>, <<"Int32", "i32">>,
      <<"UInt32", "u32">>, <<"Int64", "i64">>, <<"UInt64", "u64">>,
      <<"Float", "f32">>, <<"Double", "f64">> }
PrimitiveNames == {e[1] : e \in primitive}
HostType(name) == (CHOOSE e \in primitive : e[1] = name)[2]

\* Size in bytes of a host primitive type.
SizeOf(type) ==
    CASE type \in {"bool", "i8", "u8"} -> 1
      [] type \in {"i16", "u16"} -> 2
      [] type \in {"i32", "u32", "f32"} -> 4
      [] type \in {"i64", "u64", "f64"} -> 8

\* The native scalar UA_<name> a wrapper is transparent over.
Inner(name) ==
    CASE name = "Boolean" -> "bool"
      [] name = "SByte" -> "i8"
      [] name = "Byte" -> "u8"
      [] name = "Int16" -> "i16"
      [] name = "UInt16" -> "u16"
      [] name = "Int32" -> "i32"
      [] name = "UInt32" -> "u32"
      [] name = "Int64" -> "i64"
      [] name = "UInt64" -> "u64"
      [] name = "Float" -> "f32"
      [] name = "Double" -> "f64"

\* A value in memory is its object representation: SizeOf bytes, low byte first.
Signed(type) == type \in {"i8", "i16", "i32", "i64"}
Pow256(n) == IF n = 1 THEN 256 ELSE 65536

\* The bytes of an integer of a type of one or two bytes (two's complement).
ToBytes(type, v) ==
    LET n == SizeOf(type)
        u == IF v < 0 THEN v + Pow256(n) ELSE v
    IN [i \in 1..n |-> IF i = 1 THEN u % 256 ELSE u \div 256]

\* The value a type of one or two bytes reads from its bytes; wider types and
\* floating point read their bit pattern.
FromBytes(type, b) ==
    IF type = "bool" THEN b[1] = 1
    ELSE IF SizeOf(type) > 2 THEN b
    ELSE LET n == SizeOf(type)
             u == IF n = 1 THEN b[1] ELSE b[1] + 256 * b[2]
         IN IF Signed(type) /\ u >= Pow256(n) \div 2 THEN u - Pow256(n) ELSE u

\* DataType::from_ref: a bit copy of the native value behind the reference into a
\* new wrapper.
from_ref(name, src) == [i \in 1..SizeOf(Inner(name)) |-> src[i]]

\* Mutant: the wrapper is built from the default value, not from `value`.
new_default(name, value) == from_ref(name, [i \in 1..Len(value) |-> 0])

\* $name::new: Self::from_ref(&value).
new(name, value) == from_ref(name, value)

\* DataType::as_ref: the wrapper's memory read as Self::Inner.
as_ref(name, self) == SubSeq(self, 1, SizeOf(Inner(name)))

\* Host values: zero, one, the extremes, the sign bit, infinities and NaNs.
LowBytes == {0, 1, 255}
MidBytes == {0, 255}
HighBytes == {0, 128, 192, 240, 248, 255}
TopBytes == {0, 127, 128, 255}
HostValues(type) ==
    LET n == SizeOf(type)
    IN IF type = "bool" THEN {<<0>>, <<1>>}
       ELSE IF n = 1 THEN {<<b>> : b \in LowBytes \cup TopBytes}
       ELSE {b \in [1..n -> LowBytes \cup MidBytes \cup HighBytes \cup TopBytes] :
                /\ b[1] \in LowBytes
                /\ b[n] \in TopBytes
                /\ b[n - 1] \in (IF n = 2 THEN LowBytes ELSE HighBytes)
                /\ \A i \in 2..(n - 2) : b[i] \in MidBytes}

\* ------------------------------------------------------------ state
VARIABLES
    pc,              \* per container: free, d_init, d_logged, d_populated, live, dropped
    opt,             \* per container: the field self.0
    how,             \* per container: how it was created
    orig,            \* per container: the value it was created with
    touched,         \* per container: exclusive access was handed out
    lastOp,          \* per container: the last method called on it
    recvAt,          \* per container: its state when that method was called
    outcome,         \* per container: what that method produced
    panickedIn,      \* per container: the methods that panicked on it
    ret,             \* per container: the value into_raw returned
    cleanBy,         \* per container: native cleanup calls it made
    cleanArg,        \* per container: the argument of its cleanup call
    dropState,       \* per container: its state when Drop::drop ran
    status,          \* per container: status code of the default-population call
    loggerAssigns,   \* per container: assignments of the logger field by default()
    setDefaultCalls, \* per container: calls of the default-population routine
    sdLogger,        \* per container: the logger field that routine was called with
    held,            \* raw values in the caller's hands
    cleaned,         \* per native value: calls of the native cleanup on it
    nextC,           \* next container to be created
    nextId,          \* next native value to come into being
    ptype,           \* primitive wrappers: the table entry in use
    phost,           \* primitive wrappers: the host value (object representation)
    pwrap,           \* primitive wrappers: the wrapper's bytes
    pread,           \* primitive wrappers: the bytes read through as_ref
    ppc              \* primitive wrappers: start, built, read

cvars == <<pc, opt, how, orig, touched, lastOp, recvAt, outcome, panickedIn, ret, cleanBy,
           cleanArg, dropState, status, loggerAssigns, setDefaultCalls, sdLogger,
           held, cleaned, nextC, nextId>>
pvars == <<ptype, phost, pwrap, pread, ppc>>
vars == <<cvars, pvars>>

InitPrimIdle ==
    /\ ptype = "Boolean"
    /\ phost = <<0>>
    /\ pwrap = <<>>
    /\ pread = <<>>
    /\ ppc = "idle"

InitIdleContainers ==
    /\ pc = [c \in Containers |-> "free"]
    /\ opt = [c \in Containers |-> None]
    /\ how = [c \in Containers |-> "none"]
    /\ orig = [c \in Containers |-> None]
    /\ touched = [c \in Containers |-> FALSE]
    /\ lastOp = [c \in Containers |-> "none"]
    /\ recvAt = [c \in Containers |-> "-"]
    /\ outcome = [c \in Containers |-> "none"]
    /\ panickedIn = [c \in Containers |-> {}]
    /\ ret = [c \in Containers |-> None]
    /\ cleanBy = [c \in Containers |-> 0]
    /\ cleanArg = [c \in Containers |-> None]
    /\ dropState = [c \in Containers |-> "-"]
    /\ status = [c \in Containers |-> "-"]
    /\ loggerAssigns = [c \in Containers |-> 0]
    /\ setDefaultCalls = [c \in Containers |-> 0]
    /\ sdLogger = [c \in Containers |-> "-"]
    /\ held = {}
    /\ cleaned = [i \in ValueIds |-> 0]
    /\ nextC = 1
    /\ nextId = 1

Init ==
    /\ InitIdleContainers
    /\ InitPrimIdle

\* The end of a container: Drop::drop runs on what its field holds.
Dropped(c, self) ==
    LET d == drop(self)
    IN /\ pc' = [pc EXCEPT ![c] = "dropped"]
       /\ opt' = [opt EXCEPT ![c] = d.self]
       /\ dropState' = [dropState EXCEPT ![c] = StateOf(self)]
       /\ cleanArg' = [cleanArg EXCEPT ![c] = d.clean]
       /\ cleanBy' = [cleanBy EXCEPT ![c] = @ + (IF IsSome(d.clean) THEN 1 ELSE 0)]
       /\ cleaned' = IF IsSome(d.clean)
                     THEN [cleaned EXCEPT ![d.clean.val.id] = @ + 1]
                     ELSE cleaned

Created(c, by, o) ==
    /\ opt' = [opt EXCEPT ![c] = o]
    /\ how' = [how EXCEPT ![c] = by]
    /\ orig' = [orig EXCEPT ![c] = o]
    /\ nextC' = c + 1

\* let config = ServerConfig::init();
CallInit(c) ==
    /\ c = nextC /\ pc[c] = "free" /\ nextId \in ValueIds
    /\ Created(c, "init", init(nextId))
    /\ pc' = [pc EXCEPT ![c] = "live"]
    /\ nextId' = nextId + 1
    /\ UNCHANGED <<touched, lastOp, recvAt, outcome, panickedIn, ret, cleanBy, cleanArg, dropState,
                   status, loggerAssigns, setDefaultCalls, sdLogger, held, cleaned, pvars>>

\* let config = unsafe { ServerConfig::from_raw(src) }; with a value the native
\* side just produced.
CallFromRawNew(c) ==
    /\ c = nextC /\ pc[c] = "free" /\ nextId \in ValueIds
    /\ \E src \in ExternalValues(nextId) : Created(c, "from_raw", from_raw(src))
    /\ pc' = [pc EXCEPT ![c] = "live"]
    /\ nextId' = nextId + 1
    /\ UNCHANGED <<touched, lastOp, recvAt, outcome, panickedIn, ret, cleanBy, cleanArg, dropState,
                   status, loggerAssigns, setDefaultCalls, sdLogger, held, cleaned, pvars>>

\* Mutant: from_raw copies the value and leaves the original with the caller.
CallFromRawHeldCopy(c) ==
    /\ c = nextC /\ pc[c] = "free"
    /\ \E src \in held : Created(c, "from_raw", from_raw(src))
    /\ pc' = [pc EXCEPT ![c] = "live"]
    /\ UNCHANGED <<touched, lastOp, recvAt, outcome, panickedIn, ret, cleanBy, cleanArg,
                   dropState, status, loggerAssigns, setDefaultCalls, sdLogger, held,
                   cleaned, nextId, pvars>>

\* ... with a value the caller got from into_raw: it moves into the container.
CallFromRawHeld(c) ==
    /\ c = nextC /\ pc[c] = "free"
    /\ \E src \in held :
          /\ Created(c, "from_raw", from_raw(src))
          /\ held' = held \ {src}
    /\ pc' = [pc EXCEPT ![c] = "live"]
    /\ UNCHANGED <<touched, lastOp, recvAt, outcome, panickedIn, ret, cleanBy, cleanArg, dropState,
                   status, loggerAssigns, setDefaultCalls, sdLogger, cleaned, nextId,
                   pvars>>

Called(c, op, panicked, good) ==
    /\ lastOp' = [lastOp EXCEPT ![c] = op]
    /\ recvAt' = [recvAt EXCEPT ![c] = StateOf(opt[c])]
    /\ outcome' = [outcome EXCEPT ![c] = IF panicked THEN "panic" ELSE good]
    /\ panickedIn' = [panickedIn EXCEPT ![c] = IF panicked THEN @ \cup {op} ELSE @]

\* unsafe { config.as_mut() }, and what the caller writes through the reference.
CallAsMut(c) ==
    /\ pc[c] = "live"
    /\ LET r == as_mut(opt[c])
       IN /\ Called(c, "as_mut", r.panic, "ref")
          /\ IF r.panic
             THEN UNCHANGED <<opt, touched>>
             ELSE /\ touched' = [touched EXCEPT ![c] = TRUE]
                  /\ \E p \in {r.ref.val.port, 1} :
                        opt' = [opt EXCEPT ![c] = Some([r.ref.val EXCEPT !.port = p])]
    /\ UNCHANGED <<pc, how, orig, ret, cleanBy, cleanArg, dropState, status,
                   loggerAssigns, setDefaultCalls, sdLogger, held, cleaned, nextC,
                   nextId, pvars>>

\* unsafe { config.as_mut_ptr() }
CallAsMutPtr(c) ==
    /\ pc[c] = "live"
    /\ LET r == as_mut_ptr(opt[c])
       IN /\ Called(c, "as_mut_ptr", r.panic, "ptr")
          /\ opt' = [opt EXCEPT ![c] = r.self]
          /\ touched' = [touched EXCEPT ![c] = (@ \/ ~r.panic)]
    /\ UNCHANGED <<pc, how, orig, ret, cleanBy, cleanArg, dropState, status,
                   loggerAssigns, setDefaultCalls, sdLogger, held, cleaned, nextC,
                   nextId, pvars>>

\* Mutant: into_raw borrows the container instead of consuming it.
CallIntoRawByRef(c) ==
    /\ pc[c] = "live"
    /\ LET r == into_raw(opt[c])
       IN /\ Called(c, "into_raw", r.panic, "value")
          /\ ret' = [ret EXCEPT ![c] = r.ret]
          /\ held' = IF r.panic THEN held ELSE held \cup {r.ret.val}
          /\ opt' = [opt EXCEPT ![c] = r.self]
    /\ UNCHANGED <<pc, how, orig, touched, cleanBy, cleanArg, dropState, status,
                   loggerAssigns, setDefaultCalls, sdLogger, cleaned, nextC, nextId,
                   pvars>>

\* let raw = config.into_raw(); the container is consumed: what is left of it is
\* dropped when into_raw returns or unwinds.
CallIntoRaw(c) ==
    /\ pc[c] = "live"
    /\ LET r == into_raw(opt[c])
       IN /\ Called(c, "into_raw", r.panic, "value")
          /\ ret' = [ret EXCEPT ![c] = r.ret]
          /\ held' = IF r.panic THEN held ELSE held \cup {r.ret.val}
          /\ Dropped(c, r.self)
    /\ UNCHANGED <<how, orig, touched, status, loggerAssigns, setDefaultCalls, sdLogger,
                   nextC, nextId, pvars>>

\* The container goes out of scope.
CallDrop(c) ==
    /\ pc[c] = "live"
    /\ Dropped(c, opt[c])
    /\ UNCHANGED <<how, orig, touched, lastOp, recvAt, outcome, panickedIn, ret, status,
                   loggerAssigns, setDefaultCalls, sdLogger, held, nextC, nextId, pvars>>

\* ------------------------------------------------------------ default()
Panicked(c, op) ==
    /\ lastOp' = [lastOp EXCEPT ![c] = op]
    /\ recvAt' = [recvAt EXCEPT ![c] = StateOf(opt[c])]
    /\ outcome' = [outcome EXCEPT ![c] = "panic"]
    /\ panickedIn' = [panickedIn EXCEPT ![c] = @ \cup {op}]
    /\ Dropped(c, opt[c])

\* let mut config = Self::init();
DefaultInit(c) ==
    /\ c = nextC /\ pc[c] = "free" /\ nextId \in ValueIds
    /\ Created(c, "default", init(nextId))
    /\ pc' = [pc EXCEPT ![c] = "d_init"]
    /\ nextId' = nextId + 1
    /\ UNCHANGED <<touched, lastOp, recvAt, outcome, panickedIn, ret, cleanBy, cleanArg, dropState,
                   status, loggerAssigns, setDefaultCalls, sdLogger, held, cleaned, pvars>>

\* The block that sets the logger: as_mut, the assertion, the assignment. A panic
\* unwinds default() and drops `config`.
DefaultSetLogger(c) ==
    /\ pc[c] = "d_init"
    /\ LET r == as_mut(opt[c])
       IN IF r.panic \/ ~logging_is_null(r.ref.val)
          THEN /\ Panicked(c, "default")
               /\ UNCHANGED loggerAssigns
          ELSE /\ opt' = [opt EXCEPT ![c] = Some(set_logger(r.ref.val))]
               /\ loggerAssigns' = [loggerAssigns EXCEPT ![c] = @ + 1]
               /\ pc' = [pc EXCEPT ![c] = "d_logged"]
               /\ UNCHANGED <<lastOp, recvAt, outcome, panickedIn, cleanBy, cleanArg, dropState,
                              cleaned>>
    /\ UNCHANGED <<how, orig, touched, ret, status, setDefaultCalls, sdLogger, held,
                   nextC, nextId, pvars>>

\* Mutant: the native routine is not called and a good status is assumed.
DefaultSkipSetDefault(c) ==
    /\ pc[c] = "d_logged"
    /\ status' = [status EXCEPT ![c] = "Good"]
    /\ setDefaultCalls' = [setDefaultCalls EXCEPT ![c] = @ + 1]
    /\ sdLogger' = [sdLogger EXCEPT ![c] = opt[c].val.logging]
    /\ pc' = [pc EXCEPT ![c] = "d_populated"]
    /\ UNCHANGED <<opt, lastOp, recvAt, outcome, panickedIn, cleanBy, cleanArg, dropState,
                   cleaned, how, orig, touched, ret, loggerAssigns, held, nextC, nextId,
                   pvars>>

\* let status_code = StatusCode::new(UA_ServerConfig_setDefault(config.as_mut_ptr()));
DefaultSetDefault(c) ==
    /\ pc[c] = "d_logged"
    /\ LET r == as_mut_ptr(opt[c])
       IN IF r.panic
          THEN /\ Panicked(c, "default")
               /\ UNCHANGED <<status, setDefaultCalls, sdLogger>>
          ELSE /\ \E s \in StatusCodes, p \in PartialResults :
                     /\ opt' = [opt EXCEPT
                                  ![c] = Some(UA_ServerConfig_setDefault(r.ref.val, s, p))]
                     /\ status' = [status EXCEPT ![c] = s]
               /\ setDefaultCalls' = [setDefaultCalls EXCEPT ![c] = @ + 1]
               /\ sdLogger' = [sdLogger EXCEPT ![c] = r.ref.val.logging]
               /\ pc' = [pc EXCEPT ![c] = "d_populated"]
               /\ UNCHANGED <<lastOp, recvAt, outcome, panickedIn, cleanBy, cleanArg, dropState,
                              cleaned>>
    /\ UNCHANGED <<how, orig, touched, ret, loggerAssigns, held, nextC, nextId, pvars>>

\* Error::verify_good(&status_code).expect(..); config
DefaultVerify(c) ==
    /\ pc[c] = "d_populated"
    /\ IF expect_good(status[c]).panic
       THEN Panicked(c, "default")
       ELSE /\ pc' = [pc EXCEPT ![c] = "live"]
            /\ UNCHANGED <<opt, lastOp, recvAt, outcome, panickedIn, cleanBy, cleanArg, dropState,
                           cleaned>>
    /\ UNCHANGED <<how, orig, touched, ret, status, loggerAssigns, setDefaultCalls,
                   sdLogger, held, nextC, nextId, pvars>>

Next ==
    \E c \in Containers :
        \/ CallInit(c)
        \/ CallFromRawNew(c)
        \/ CallFromRawHeld(c)
        \/ CallAsMut(c)
        \/ CallAsMutPtr(c)
        \/ CallIntoRaw(c)
        \/ CallDrop(c)
        \/ DefaultInit(c)
        \/ DefaultSetLogger(c)
        \/ DefaultSetDefault(c)
        \/ DefaultVerify(c)

\* Containers created and used through the API.
Spec == Init /\ [][Next]_vars

\* The methods applied to every value of the container's type: container 1 starts
\* holding any Option<UA_ServerConfig>, None included.
InitMethod ==
    /\ pc = [c \in Containers |-> IF c = 1 THEN "live" ELSE "free"]
    /\ opt \in {[c \in Containers |-> IF c = 1 THEN o ELSE None] :
                   o \in {None} \cup {Some(v) : v \in ExternalValues(1)}}
    /\ how = [c \in Containers |-> IF c = 1 THEN "any" ELSE "none"]
    /\ orig = opt
    /\ touched = [c \in Containers |-> FALSE]
    /\ lastOp = [c \in Containers |-> "none"]
    /\ recvAt = [c \in Containers |-> "-"]
    /\ outcome = [c \in Containers |-> "none"]
    /\ panickedIn = [c \in Containers |-> {}]
    /\ ret = [c \in Containers |-> None]
    /\ cleanBy = [c \in Containers |-> 0]
    /\ cleanArg = [c \in Containers |-> None]
    /\ dropState = [c \in Containers |-> "-"]
    /\ status = [c \in Containers |-> "-"]
    /\ loggerAssigns = [c \in Containers |-> 0]
    /\ setDefaultCalls = [c \in Containers |-> 0]
    /\ sdLogger = [c \in Containers |-> "-"]
    /\ held = {}
    /\ cleaned = [i \in ValueIds |-> 0]
    /\ nextC = 2
    /\ nextId = 2
    /\ InitPrimIdle

SpecMethod == InitMethod /\ [][Next]_vars

\* ------------------------------------------------------------ properties
Methods == {"as_mut", "as_mut_ptr", "into_raw"}
InDefault(c) == how[c] = "default"
CreatedIds == 1..(nextId - 1)
Owners(i) == {c \in Containers : pc[c] \notin {"free", "dropped"}
                                 /\ IsSome(opt[c]) /\ opt[c].val.id = i}
InHand(i) == {v \in held : v.id = i}
CleanersOf(i) == {c \in Containers : IsSome(cleanArg[c]) /\ cleanArg[c].val.id = i}
DefaultPanicked(c) == InDefault(c) /\ "default" \in panickedIn[c]

\* C1: a container invokes the native cleanup if and only if it is dropped while
\* Owned, and then exactly once; init() or from_raw(v) followed directly by drop
\* cleans up exactly once and does not panic.
C1_CleanupIffDroppedOwned ==
    \A c \in Containers :
        /\ cleanBy[c] <= 1
        /\ pc[c] # "dropped" => cleanBy[c] = 0 /\ cleanArg[c] = None
        /\ pc[c] = "dropped" => (cleanBy[c] = 1 <=> dropState[c] = "Owned")
        /\ (pc[c] = "dropped" /\ how[c] \in {"init", "from_raw"} /\ lastOp[c] = "none")
              => /\ cleanBy[c] = 1
                 /\ cleanArg[c] = orig[c]
                 /\ panickedIn[c] = {}

C1_Witness ==
    /\ \E c \in Containers :
          /\ pc[c] = "dropped" /\ how[c] = "from_raw" /\ lastOp[c] = "none"
          /\ cleanBy[c] = 1
    /\ \E c \in Containers :
          /\ pc[c] = "dropped" /\ dropState[c] = "Released" /\ cleanBy[c] = 0

\* C2: from_raw(v) followed by into_raw() returns v, and the drop of the consumed
\* container performs no native cleanup.
C2_FromRawIntoRawRoundTrip ==
    \A c \in Containers :
        (how[c] = "from_raw" /\ lastOp[c] = "into_raw" /\ ~touched[c])
           => /\ outcome[c] = "value"
              /\ IsSome(ret[c]) /\ ret[c] = orig[c]
              /\ pc[c] = "dropped"
              /\ cleanBy[c] = 0 /\ cleanArg[c] = None

C2_Witness ==
    \E c \in Containers :
        /\ how[c] = "from_raw" /\ lastOp[c] = "into_raw" /\ ~touched[c]
        /\ ret[c] = Some(Configured(1)) /\ cleaned[1] = 0 /\ Configured(1) \in held

\* C3 as stated: every native value is owned by exactly one container until it has
\* been passed to the native cleanup exactly once (never zero times).
C3_Original ==
    \A i \in CreatedIds :
        \/ Cardinality(Owners(i)) = 1 /\ cleaned[i] = 0
        \/ Owners(i) = {} /\ cleaned[i] = 1

\* C3 as amended: a native value is owned by at most one container at a time, is
\* never duplicated, and is passed to the native cleanup at most once: it is either
\* owned by one container, or in the caller's hands after into_raw (owned by no
\* container and not cleaned up), or cleaned up exactly once by the container that
\* was dropped while owning it.
C3_Amended ==
    \A i \in CreatedIds :
        /\ Cardinality(Owners(i)) <= 1
        /\ Cardinality(InHand(i)) <= 1
        /\ cleaned[i] = Cardinality(CleanersOf(i))
        /\ \/ Cardinality(Owners(i)) = 1 /\ InHand(i) = {} /\ cleaned[i] = 0
           \/ Owners(i) = {} /\ Cardinality(InHand(i)) = 1 /\ cleaned[i] = 0
           \/ Owners(i) = {} /\ InHand(i) = {} /\ cleaned[i] = 1

C3_Witness ==
    \E c1, c2 \in Containers :
        /\ c1 # c2
        /\ lastOp[c1] = "into_raw" /\ IsSome(ret[c1])
        /\ how[c2] = "from_raw" /\ IsSome(orig[c2])
        /\ orig[c2].val.id = ret[c1].val.id
        /\ pc[c2] = "dropped" /\ cleanBy[c2] = 1
        /\ cleaned[ret[c1].val.id] = 1

\* C4: as_mut, as_mut_ptr and into_raw called on a Released container panic, return
\* nothing, and leave the container Released.
C4_ReleasedIsFatal ==
    \A c \in Containers :
        (lastOp[c] \in Methods /\ recvAt[c] = "Released")
           => /\ outcome[c] = "panic"
              /\ lastOp[c] \in panickedIn[c]
              /\ opt[c] = None
              /\ ret[c] = None
              /\ ~touched[c]

C4_Witness ==
    /\ orig[1] = None
    /\ panickedIn[1] = Methods
    /\ pc[1] = "dropped" /\ cleanBy[1] = 0

\* C5: in default(), the logger field is null after init(), is assigned exactly
\* once, and the native default-population routine runs once, after that
\* assignment, never with a null logger.
C5_LoggerOnceBeforeSetDefault ==
    \A c \in Containers :
        InDefault(c) =>
           /\ loggerAssigns[c] <= 1 /\ setDefaultCalls[c] <= 1
           /\ pc[c] = "d_init" => /\ opt[c] = Some(Zeroed(orig[c].val.id))
                                  /\ loggerAssigns[c] = 0 /\ setDefaultCalls[c] = 0
           /\ pc[c] = "d_logged" => /\ opt[c].val.logging = logger
                                    /\ loggerAssigns[c] = 1 /\ setDefaultCalls[c] = 0
           /\ setDefaultCalls[c] = 1 => loggerAssigns[c] = 1 /\ sdLogger[c] = logger
           /\ pc[c] \in {"d_populated", "live"} => setDefaultCalls[c] = 1

C5_Witness ==
    \E c \in Containers :
        /\ InDefault(c) /\ pc[c] = "d_populated"
        /\ loggerAssigns[c] = 1 /\ setDefaultCalls[c] = 1 /\ sdLogger[c] = logger

\* C6: a status code that is not good makes default() panic: no configuration is
\* returned and the routine is not called again; a configuration is returned only
\* for a good status.
C6_BadStatusIsFatal ==
    \A c \in Containers :
        InDefault(c) =>
           /\ setDefaultCalls[c] <= 1
           /\ pc[c] = "live" => status[c] = "Good"
           /\ (status[c] \notin {"-", "Good"} /\ pc[c] # "d_populated")
                 => /\ pc[c] = "dropped"
                    /\ DefaultPanicked(c)
                    /\ lastOp[c] = "default" /\ outcome[c] = "panic"
                    /\ setDefaultCalls[c] = 1

C6_Witness ==
    \E c \in Containers :
        /\ InDefault(c) /\ status[c] = "BadOutOfMemory"
        /\ pc[c] = "dropped" /\ DefaultPanicked(c)

\* C7: a configuration returned by default() is Owned, has a non-null logger and,
\* until the caller changes it, the default port.
C7_DefaultResult ==
    \A c \in Containers :
        (InDefault(c) /\ pc[c] = "live")
           => /\ IsSome(opt[c])
              /\ opt[c].val.logging # "null"
              /\ ~touched[c] => opt[c].val.port = DefaultPort

C7_Witness ==
    \E c \in Containers :
        /\ InDefault(c) /\ pc[c] = "live" /\ ~touched[c]
        /\ opt[c].val.port = DefaultPort /\ opt[c].val.logging = logger

\* C9: through the API no method is ever called on a Released container: a live
\* container is Owned, Released is seen only by the drop inside into_raw, and the
\* 'should have server config' panics do not happen.
C9_ReleasedUnreachable ==
    \A c \in Containers :
        /\ pc[c] \notin {"free", "dropped"} => IsSome(opt[c])
        /\ recvAt[c] # "Released"
        /\ panickedIn[c] \cap Methods = {}
        /\ dropState[c] = "Released" => lastOp[c] = "into_raw" /\ outcome[c] = "value"

C9_Witness ==
    /\ \E c \in Containers :
          /\ lastOp[c] = "into_raw" /\ dropState[c] = "Released" /\ pc[c] = "dropped"
    /\ \E c \in Containers :
          /\ lastOp[c] \in {"as_mut", "as_mut_ptr"} /\ outcome[c] \in {"ref", "ptr"}
          /\ pc[c] = "dropped" /\ dropState[c] = "Owned"

\* C10: when default() panics on a status that is not good, the container is Owned
\* with the logger assigned, and its drop during unwinding invokes the native
\* cleanup exactly once, on that configuration.
C10_PanicCleansOnce ==
    \A c \in Containers :
        DefaultPanicked(c)
           => /\ dropState[c] = "Owned"
              /\ status[c] \notin {"-", "Good"}
              /\ loggerAssigns[c] = 1
              /\ cleanBy[c] = 1
              /\ IsSome(cleanArg[c])
              /\ cleanArg[c].val.logging = logger
              /\ cleanArg[c].val.id = orig[c].val.id
              /\ cleaned[orig[c].val.id] = 1

C10_Witness ==
    \E c \in Containers :
        /\ DefaultPanicked(c) /\ status[c] = "BadOutOfMemory"
        /\ cleanBy[c] = 1 /\ cleanArg[c].val.logging = logger

\* ------------------------------------------------------------ primitive wrappers
InitPrim ==
    /\ InitIdleContainers
    /\ ptype \in PrimitiveNames
    /\ phost \in HostValues(HostType(ptype))
    /\ pwrap = <<>>
    /\ pread = <<>>
    /\ ppc = "start"

\* let w = $name::new(value);
PrimNew ==
    /\ ppc = "start"
    /\ pwrap' = new(ptype, phost)
    /\ ppc' = "built"
    /\ UNCHANGED <<cvars, ptype, phost, pread>>

\* let inner = w.as_ref();
PrimAsRef ==
    /\ ppc = "built"
    /\ pread' = as_ref(ptype, pwrap)
    /\ ppc' = "read"
    /\ UNCHANGED <<cvars, ptype, phost, pwrap>>

NextPrim == PrimNew \/ PrimAsRef

SpecPrim == InitPrim /\ [][NextPrim]_vars

\* C8: for every table entry and host value, new(v) read back through as_ref is
\* bit-identical to v: Boolean true reads back true, Int16 -1 reads back -1.
C8_PrimitiveRoundTrip ==
    ppc = "read" =>
       /\ Len(pread) = SizeOf(HostType(ptype))
       /\ pread = phost
       /\ FromBytes(HostType(ptype), pread) = FromBytes(HostType(ptype), phost)
       /\ (ptype = "Boolean" /\ phost = <<1>>) => FromBytes("bool", pread) = TRUE
       /\ (ptype = "Int16" /\ phost = ToBytes("i16", -1)) => FromBytes("i16", pread) = -1
       /\ (ptype = "SByte" /\ phost = ToBytes("i8", -128)) => FromBytes("i8", pread) = -128
       /\ (ptype = "UInt16" /\ phost = ToBytes("u16", 65535))
             => FromBytes("u16", pread) = 65535

C8_Witness ==
    /\ ppc = "read" /\ ptype = "Int16"
    /\ phost = <<255, 255>>
    /\ FromBytes("i16", pread) = -1

====
